---- MODULE Spec2Model ----
(***************************************************************************)
(* A model of the dw-image web component (src/dw-image.js, the DwImage     *)
(* class of lines 483-845): one component instance, the page it lives in   *)
(* and the host platform's fullscreen machinery.                           *)
(*                                                                         *)
(* Every handler of the class is an operator over a record `t` (the        *)
(* instance `this` together with the part of the document it touches);     *)
(* every action of the model is one task of the event loop: the listeners  *)
(* that one event runs, each followed by the Lit update (render and        *)
(* updated) that the microtask checkpoint after a listener performs.       *)
(***************************************************************************)
EXTENDS Naturals, Sequences, FiniteSets

VARIABLES
  attached,               \* the element is connected to the document
  listeners,              \* the event types the instance's handlers are registered for
  src,                    \* this.src
  disableZoom,            \* this.disableZoom
  zoomSrc,                \* this.zoomSrc ("undefined" while never set)
  auto,                   \* this.auto, reflected to the auto attribute
  style,                  \* the page's --dw-image-height and --dw-image-width
  _isZoomMode,            \* this._isZoomMode (undefined reads as FALSE)
  _fullScreen,            \* this._fullScreen: "undefined", "true" or "false"
  fullscreenElement,      \* document.fullscreenElement: "none", "overlay", "other"
  requestPending,         \* a requestFullscreen() call the platform has not answered
  exitPending,            \* an exitFullscreen() call the platform has not answered
  fullscreenchangeQueued, \* a fullscreenchange event the platform has not fired yet
  timers,                 \* pending setTimeout callbacks of _closeZoomImage
  events,                 \* the notifications the last task dispatched on window
  calls,                  \* the platform calls the last task made
  lastEnabled,            \* `enabled` of the last dw-image-fullscreen: "none" before any
  last                    \* the last task and the state it started from

vars == <<attached, listeners, src, disableZoom, zoomSrc, auto, style,
          _isZoomMode, _fullScreen, fullscreenElement,
          requestPending, exitPending, fullscreenchangeQueued, timers, events,
          calls, lastEnabled, last>>

\* The number of close-control timers that may be pending at once.
MaxTimers == 2

\* The image sources an instance is configured with.
Srcs == {"a.jpg", "b.jpg"}

\* The zoom sources the page may set: none, an empty one, a real one.
ZoomSrcs == {"undefined", "", "a_hi.jpg"}

\* The values of the auto attribute.
AutoModes == {"height", "width", "none"}

\* The two dimensions, and what the page may give their custom properties.
Dimensions == {"height", "width"}
CustomValues == {"unset", "200px"}

\* The keys of the keydown events the document receives.
Keys == {"Escape", "Esc", "Enter"}

----------------------------------------------------------------------------
(* Values and elements *)

Truthy(v) == v = "true"

\* The elements a click's composedPath() can hold.
El(tag, id) == [tagName |-> tag, id |-> id]
Host == El("DW-IMAGE", "")
OverlayDiv == El("DIV", "")
InlineImgPath == <<El("IMG", ""), Host>>
ZoomImgPath == <<El("IMG", ""), OverlayDiv, OverlayDiv, OverlayDiv, Host>>
ButtonPath(id) == <<El("DW-ICON-BUTTON", id), OverlayDiv, OverlayDiv, Host>>
OutsidePath == <<OverlayDiv, Host>>
HostPath == <<Host>>

\* `this` and the document, as the handlers read and write them.
This ==
  [src |-> src, zoomSrc |-> zoomSrc, disableZoom |-> disableZoom,
   _isZoomMode |-> _isZoomMode, _fullScreen |-> _fullScreen, changed |-> FALSE, threw |-> FALSE,
   fullscreenElement |-> fullscreenElement, requestPending |-> requestPending,
   exitPending |-> exitPending, queued |-> fullscreenchangeQueued,
   timers |-> timers, events |-> <<>>, calls |-> <<>>]

\* _zoomImageTemplate: the overlay is part of the rendered tree.
OverlayOf(t) == t._isZoomMode /\ ~t.disableZoom

\* JavaScript's a || b on strings: undefined and the empty string are falsy.
Or(a, b) == IF a \in {"undefined", ""} THEN b ELSE a

\* A slip: the zoom source is used whether or not it is there.
ZoomImgSrc_noFallback(t) == t.zoomSrc

\* The src attribute of the overlay's image.
ZoomImgSrc(t) == Or(t.zoomSrc, t.src)

\* var(--dw-image-<dim>, fallback) under the page's custom properties.
Var(st, dim, fallback) == IF st[dim] = "unset" THEN fallback ELSE st[dim]

\* A slip: the height rule also takes the instances that name no dimension.
AutoRuleMatches_heightUnlessWidth(a, dim) ==
  a = dim \/ (dim = "height" /\ a # "width")

\* :host([auto='<dim>']) and :host([auto='<dim>']) .image select the instance.
AutoRuleMatches(a, dim) == a = dim

\* The declaration of `dim` that wins on the inline image: the !important one
\* of the auto rule when it matches, else the one of the .image rule.
ImageDeclaration(a, st, dim) ==
  IF AutoRuleMatches(a, dim)
    THEN [fallback |-> "auto", important |-> TRUE, value |-> Var(st, dim, "auto")]
    ELSE [fallback |-> "100%", important |-> FALSE, value |-> Var(st, dim, "100%")]

----------------------------------------------------------------------------
(* Notifications *)

Opened(image) == [type |-> "dw-image-opened", image |-> image]
Closed(image, ux) == [type |-> "dw-image-closed", image |-> image, ux |-> ux]
FullscreenChanged(image, enabled) ==
  [type |-> "dw-image-fullscreen", image |-> image, enabled |-> enabled]

dispatchEvent(t, ev) == [t EXCEPT !.events = Append(@, ev)]

----------------------------------------------------------------------------
(* The class *)

\* The reactive property _fullScreen: an assignment that changes the value
\* records the property in changedProperties and requests an update.
set_fullScreen(t, v) ==
  [t EXCEPT !._fullScreen = v, !.changed = @ \/ (t._fullScreen # v)]

_requestFullScreen(t) ==
  IF Truthy(t._fullScreen) /\ t.fullscreenElement = "none"
    THEN IF OverlayOf(t)
           THEN [t EXCEPT !.calls = Append(@, "requestFullscreen"),
                          !.requestPending = TRUE]
           ELSE [t EXCEPT !.threw = TRUE]   \* querySelector('.overlay') is null
    ELSE t

\* A slip: the document's fullscreen element is not consulted before leaving.
_exitFullScreen_unchecked(t) ==
  IF ~Truthy(t._fullScreen)
    THEN [t EXCEPT !.calls = Append(@, "exitFullscreen"), !.exitPending = TRUE]
    ELSE t

_exitFullScreen(t) ==
  IF ~Truthy(t._fullScreen) /\ t.fullscreenElement # "none"
    THEN [t EXCEPT !.calls = Append(@, "exitFullscreen"), !.exitPending = TRUE]
    ELSE t

updated(t) ==
  IF t.changed /\ t._isZoomMode
    THEN IF Truthy(t._fullScreen)
           THEN LET r == _requestFullScreen(t)
                IN  IF r.threw THEN r
                    ELSE dispatchEvent(r, FullscreenChanged(r.src, TRUE))
           ELSE dispatchEvent(_exitFullScreen(t), FullscreenChanged(t.src, FALSE))
    ELSE t

\* render: when the overlay leaves the tree while it is the fullscreen element,
\* the document leaves fullscreen and a fullscreenchange event is queued.
render(t) ==
  IF ~OverlayOf(t) /\ t.fullscreenElement = "overlay"
    THEN [t EXCEPT !.fullscreenElement = "none", !.queued = TRUE]
    ELSE t

\* One Lit update cycle: render, then updated(changedProperties).
performUpdate(t) ==
  [updated(render(t)) EXCEPT !.changed = FALSE, !.threw = FALSE]

__fullScreenChange(t) ==
  IF t.fullscreenElement # "none"
    THEN set_fullScreen(t, "true")
    ELSE set_fullScreen(t, "false")

\* The elements of a click path that belong to the zoom UI.
\* A slip: the exit-full-screen control is missing from the list.
IsZoomUI_noExitControl(el) ==
  \/ el.tagName = "IMG"
  \/ el.tagName = "DW-ICON-BUTTON" /\ el.id = "close-btn"
  \/ el.tagName = "DW-ICON-BUTTON" /\ el.id = "full-screen"

IsZoomUI(el) ==
  \/ el.tagName = "IMG"
  \/ el.tagName = "DW-ICON-BUTTON" /\ el.id = "close-btn"
  \/ el.tagName = "DW-ICON-BUTTON" /\ el.id = "full-screen"
  \/ el.tagName = "DW-ICON-BUTTON" /\ el.id = "exit-full-screen"

\* A slip: the early return on the Fullscreen flag is missing.
__onClick_unguarded(t, paths) ==
  LET outsideImageClick == \A i \in 1..Len(paths) : ~IsZoomUI(paths[i])
  IN  IF outsideImageClick
        THEN dispatchEvent([t EXCEPT !._isZoomMode = FALSE],
                           Closed(t.src, "OVERLAY_CLICK"))
        ELSE t

__onClick(t, paths) ==
  IF Truthy(t._fullScreen) THEN t
  ELSE LET outsideImageClick == \A i \in 1..Len(paths) : ~IsZoomUI(paths[i])
       IN  IF outsideImageClick
             THEN dispatchEvent([t EXCEPT !._isZoomMode = FALSE],
                                Closed(t.src, "OVERLAY_CLICK"))
             ELSE t

\* A slip: Escape is not checked against the zoom mode.
__keydown_unguarded(t, e) ==
  IF e.keycode = 27 \/ e.key = "Escape" \/ e.key = "Esc"
    THEN dispatchEvent([t EXCEPT !._isZoomMode = FALSE], Closed(t.src, "ESC"))
    ELSE t

\* A slip: Escape closes the overlay without telling anyone.
__keydown_silent(t, e) ==
  IF e.keycode = 27 \/ e.key = "Escape" \/ e.key = "Esc"
    THEN [t EXCEPT !._isZoomMode = FALSE]
    ELSE t

\* e.keycode is not a property of a KeyboardEvent: it reads as undefined (0 here).
__keydown(t, e) ==
  IF e.keycode = 27 \/ e.key = "Escape" \/ e.key = "Esc"
    THEN IF ~t._isZoomMode THEN t
         ELSE dispatchEvent([t EXCEPT !._isZoomMode = FALSE], Closed(t.src, "ESC"))
    ELSE t

\* A slip: disableZoom is not consulted.
_setZoomMode_always(t) ==
  dispatchEvent([t EXCEPT !._isZoomMode = TRUE], Opened(t.src))

_setZoomMode(t) ==
  IF t.disableZoom THEN t
  ELSE dispatchEvent([t EXCEPT !._isZoomMode = TRUE], Opened(t.src))

\* A slip: the toggle leaves the flag to the platform's notification.
fullScreenClick_deferred(t) == t

\* The click handlers of the two toggle controls of _zoomImageTemplate.
fullScreenClick(t) == set_fullScreen(t, "true")
exitFullScreenClick(t) == set_fullScreen(t, "false")

\* A slip: the close control does not drop the Fullscreen flag first.
_closeZoomImage_keepsFlag(t) == [t EXCEPT !.timers = @ + 1]

\* _closeZoomImage up to its setTimeout: the callback is timerCallback.
_closeZoomImage(t) ==
  LET u == IF Truthy(t._fullScreen) THEN set_fullScreen(t, "false") ELSE t
  IN  [u EXCEPT !.timers = @ + 1]

\* A slip: the callback gives up once the element has left the document.
timerCallback_abandoned(t) ==
  IF attached
    THEN dispatchEvent([t EXCEPT !._isZoomMode = FALSE, !.timers = @ - 1],
                       Closed(t.src, "CLOSE_BUTTON"))
    ELSE [t EXCEPT !.timers = @ - 1]

timerCallback(t) ==
  dispatchEvent([t EXCEPT !._isZoomMode = FALSE, !.timers = @ - 1],
                Closed(t.src, "CLOSE_BUTTON"))

----------------------------------------------------------------------------
(* Tasks *)

Pre ==
  [attached |-> attached, disableZoom |-> disableZoom, _isZoomMode |-> _isZoomMode,
   _fullScreen |-> _fullScreen, fullscreenElement |-> fullscreenElement,
   timers |-> timers, enabled |-> lastEnabled]

\* The `enabled` of the last dw-image-fullscreen among `evs`, else `before`.
RECURSIVE EnabledAfter(_, _)
EnabledAfter(before, evs) ==
  IF evs = <<>> THEN before
  ELSE LET ev == evs[Len(evs)]
       IN  IF ev.type = "dw-image-fullscreen"
             THEN (IF ev.enabled THEN "true" ELSE "false")
             ELSE EnabledAfter(before, SubSeq(evs, 1, Len(evs) - 1))

\* The state a task leaves behind.
Effects(op, t) ==
  /\ _isZoomMode' = t._isZoomMode
  /\ _fullScreen' = t._fullScreen
  /\ fullscreenElement' = t.fullscreenElement
  /\ requestPending' = t.requestPending
  /\ exitPending' = t.exitPending
  /\ fullscreenchangeQueued' = t.queued
  /\ timers' = t.timers
  /\ events' = t.events
  /\ calls' = t.calls
  /\ lastEnabled' = EnabledAfter(lastEnabled, t.events)
  /\ last' = [op |-> op, pre |-> Pre]
  /\ UNCHANGED src

\* A task of the component or the platform: the page's settings stay.
Commit(op, t) ==
  /\ Effects(op, t)
  /\ UNCHANGED <<zoomSrc, auto, style>>

\* A pointer click on a control of the overlay: the control's own listener, the
\* update it requested, then the host's click listener and its update.
Click(op, t, paths) ==
  Commit(op, IF "click" \in listeners
               THEN performUpdate(__onClick(performUpdate(t), paths))
               ELSE performUpdate(t))

\* The three registrations of connectedCallback: the host's click, the
\* document's keydown and the window's fullscreenchange.
addEventListeners(ls) == ls \cup {"click", "keydown", "fullscreenchange"}

removeEventListeners_keydownStays(ls) == ls \ {"click", "fullscreenchange"}

\* disconnectedCallback removes the same three handlers.
removeEventListeners(ls) == ls \ {"click", "keydown", "fullscreenchange"}

Init ==
  /\ attached = FALSE
  /\ listeners = {}
  /\ src \in Srcs
  /\ disableZoom \in BOOLEAN
  /\ zoomSrc = "undefined"
  /\ auto = "height"
  /\ style = [d \in Dimensions |-> "unset"]
  /\ _isZoomMode = FALSE
  /\ _fullScreen = "undefined"
  /\ fullscreenElement = "none"
  /\ requestPending = FALSE
  /\ exitPending = FALSE
  /\ fullscreenchangeQueued = FALSE
  /\ timers = 0
  /\ events = <<>>
  /\ calls = <<>>
  /\ lastEnabled = "none"
  /\ last = [op |-> "constructor", pre |-> Pre]

connectedCallback ==
  /\ ~attached
  /\ attached' = TRUE
  /\ listeners' = addEventListeners(listeners)
  /\ UNCHANGED disableZoom
  /\ Commit("connectedCallback", This)

\* Leaving the document takes the overlay with it.
disconnectedCallback ==
  /\ attached
  /\ attached' = FALSE
  /\ listeners' = removeEventListeners(listeners)
  /\ UNCHANGED disableZoom
  /\ Commit("disconnectedCallback",
            IF fullscreenElement = "overlay"
              THEN [This EXCEPT !.fullscreenElement = "none", !.queued = TRUE]
              ELSE This)

\* The page sets the disable-zoom attribute.
SetDisableZoom ==
  /\ \E b \in BOOLEAN :
       /\ b # disableZoom
       /\ disableZoom' = b
       /\ Commit("setDisableZoom", performUpdate([This EXCEPT !.disableZoom = b]))
  /\ UNCHANGED <<attached, listeners>>

\* The page sets the zoom-src attribute.
SetZoomSrc ==
  /\ \E z \in ZoomSrcs :
       /\ z # zoomSrc
       /\ zoomSrc' = z
       /\ Effects("setZoomSrc", performUpdate([This EXCEPT !.zoomSrc = z]))
  /\ UNCHANGED <<attached, listeners, disableZoom, auto, style>>

\* The page sets the auto attribute.
SetAuto ==
  /\ \E a \in AutoModes :
       /\ a # auto
       /\ auto' = a
       /\ Effects("setAuto", performUpdate(This))
  /\ UNCHANGED <<attached, listeners, disableZoom, zoomSrc, style>>

\* The page's style sheet sets or drops one of the custom properties.
SetCustomProperty ==
  /\ \E d \in Dimensions, v \in CustomValues :
       /\ v # style[d]
       /\ style' = [style EXCEPT ![d] = v]
       /\ Effects("setCustomProperty", This)
  /\ UNCHANGED <<attached, listeners, disableZoom, zoomSrc, auto>>

\* The overlay is a fixed layer over the whole viewport (styles .overlay): the
\* inline image receives pointer clicks only while the overlay is not shown.
ClickImage ==
  /\ attached /\ ~OverlayOf(This)
  /\ Click("clickImage", _setZoomMode(This), InlineImgPath)
  /\ UNCHANGED <<attached, listeners, disableZoom>>

ClickZoomImage ==
  /\ attached /\ OverlayOf(This)
  /\ Click("clickZoomImage", This, ZoomImgPath)
  /\ UNCHANGED <<attached, listeners, disableZoom>>

ClickFullScreen ==
  /\ attached /\ OverlayOf(This) /\ ~Truthy(_fullScreen)
  /\ Click("clickFullScreen", fullScreenClick(This), ButtonPath("full-screen"))
  /\ UNCHANGED <<attached, listeners, disableZoom>>

ClickExitFullScreen ==
  /\ attached /\ OverlayOf(This) /\ Truthy(_fullScreen)
  /\ Click("clickExitFullScreen", exitFullScreenClick(This),
           ButtonPath("exit-full-screen"))
  /\ UNCHANGED <<attached, listeners, disableZoom>>

ClickClose ==
  /\ attached /\ OverlayOf(This) /\ timers < MaxTimers
  /\ Click("clickClose", _closeZoomImage(This), ButtonPath("close-btn"))
  /\ UNCHANGED <<attached, listeners, disableZoom>>

\* A click on the overlay outside the image and the controls.
ClickOutside ==
  /\ attached /\ OverlayOf(This)
  /\ Click("clickOutside", This, OutsidePath)
  /\ UNCHANGED <<attached, listeners, disableZoom>>

\* A click on the host element itself while no overlay is shown.
ClickHost ==
  /\ attached /\ ~OverlayOf(This)
  /\ Click("clickHost", This, HostPath)
  /\ UNCHANGED <<attached, listeners, disableZoom>>

\* A key goes down somewhere in the document.
KeyDown ==
  /\ \E k \in Keys :
       Commit(IF k = "Enter" THEN "keydownOther" ELSE "keydownEscape",
              IF "keydown" \in listeners
                THEN performUpdate(__keydown(This, [keycode |-> 0, key |-> k]))
                ELSE This)
  /\ UNCHANGED <<attached, listeners, disableZoom>>

\* The deferred action of _closeZoomImage: nothing cancels it.
Timeout ==
  /\ timers > 0
  /\ Commit("timeout", performUpdate(timerCallback(This)))
  /\ UNCHANGED <<attached, listeners, disableZoom>>

----------------------------------------------------------------------------
(* The host platform *)

\* The platform changes the document's fullscreen element once per frame and
\* fires the fullscreenchange of one change before it makes the next.
\* The platform grants the pending request: the overlay becomes the fullscreen
\* element.  Only an element that is in the document can be granted.
PlatformGrants ==
  /\ requestPending /\ attached /\ OverlayOf(This) /\ ~fullscreenchangeQueued
  /\ Commit("platformGrants",
            [This EXCEPT !.requestPending = FALSE, !.fullscreenElement = "overlay",
                         !.queued = TRUE])
  /\ UNCHANGED <<attached, listeners, disableZoom>>

\* The platform declines the pending request: no fullscreenchange follows.
PlatformDeclines ==
  /\ requestPending
  /\ Commit("platformDeclines", [This EXCEPT !.requestPending = FALSE])
  /\ UNCHANGED <<attached, listeners, disableZoom>>

\* The platform performs the pending exitFullscreen().
PlatformExits ==
  /\ exitPending /\ ~fullscreenchangeQueued
  /\ Commit("platformExits",
            IF fullscreenElement # "none"
              THEN [This EXCEPT !.exitPending = FALSE, !.fullscreenElement = "none",
                                !.queued = TRUE]
              ELSE [This EXCEPT !.exitPending = FALSE])
  /\ UNCHANGED <<attached, listeners, disableZoom>>

\* The user leaves fullscreen with the platform's own control.
ExternalExit ==
  /\ fullscreenElement # "none" /\ ~fullscreenchangeQueued
  /\ Commit("externalExit",
            [This EXCEPT !.fullscreenElement = "none", !.queued = TRUE])
  /\ UNCHANGED <<attached, listeners, disableZoom>>

\* Another element of the page enters fullscreen.
ForeignEnter ==
  /\ fullscreenElement = "none" /\ ~fullscreenchangeQueued
  /\ Commit("foreignEnter",
            [This EXCEPT !.fullscreenElement = "other", !.queued = TRUE])
  /\ UNCHANGED <<attached, listeners, disableZoom>>

\* The platform fires the queued fullscreenchange event on window.
FullScreenChange ==
  /\ fullscreenchangeQueued
  /\ Commit("fullscreenchange",
            IF "fullscreenchange" \in listeners
              THEN performUpdate(__fullScreenChange([This EXCEPT !.queued = FALSE]))
              ELSE [This EXCEPT !.queued = FALSE])
  /\ UNCHANGED <<attached, listeners, disableZoom>>

Next ==
  \/ connectedCallback
  \/ disconnectedCallback
  \/ SetDisableZoom
  \/ ClickImage
  \/ ClickZoomImage
  \/ ClickFullScreen
  \/ ClickExitFullScreen
  \/ ClickClose
  \/ ClickOutside
  \/ ClickHost
  \/ KeyDown
  \/ Timeout
  \/ PlatformGrants
  \/ PlatformDeclines
  \/ PlatformExits
  \/ ExternalExit
  \/ ForeignEnter
  \/ FullScreenChange

Spec == Init /\ [][Next]_vars

\* What the component renders: the page's settings, and the tasks that show
\* and hide the overlay.
RenderNext ==
  \/ connectedCallback
  \/ disconnectedCallback
  \/ SetDisableZoom
  \/ ClickImage
  \/ ClickOutside
  \/ KeyDown
  \/ SetZoomSrc
  \/ SetAuto
  \/ SetCustomProperty

RenderSpec == Init /\ [][RenderNext]_vars

\* The event loop runs every timer that is due.
FairSpec == Spec /\ WF_vars(Timeout)

TypeOK ==
  /\ attached \in BOOLEAN /\ src \in Srcs /\ disableZoom \in BOOLEAN
  /\ listeners \subseteq {"click", "keydown", "fullscreenchange"}
  /\ zoomSrc \in ZoomSrcs /\ auto \in AutoModes
  /\ style \in [Dimensions -> CustomValues]
  /\ _isZoomMode \in BOOLEAN
  /\ _fullScreen \in {"undefined", "true", "false"}
  /\ fullscreenElement \in {"none", "overlay", "other"}
  /\ requestPending \in BOOLEAN /\ exitPending \in BOOLEAN
  /\ fullscreenchangeQueued \in BOOLEAN
  /\ timers \in 0..MaxTimers
  /\ Len(events) <= 2 /\ Len(calls) <= 2
  /\ lastEnabled \in {"none", "true", "false"}

----------------------------------------------------------------------------
(* The view states of the component *)

Zoomed == _isZoomMode
Fullscreen == Truthy(_fullScreen)
WasZoomed == last.pre._isZoomMode
WasFullscreen == Truthy(last.pre._fullScreen)

\* The last task left the instance and the document as it found them and was silent.
NothingChanged ==
  /\ Pre = last.pre
  /\ events = <<>>
  /\ calls = <<>>

Emitted(ev) == \E i \in 1..Len(events) : events[i] = ev
EmittedType(type) == \E i \in 1..Len(events) : events[i].type = type

----------------------------------------------------------------------------
(* Claims *)

\* C1: a click on the inline image of an attached, Closed instance with
\* disableZoom = false leaves it Zoomed(Windowed), having emitted exactly one
\* 'opened' carrying src and no 'closed'.
C1_ClickOpensWindowed ==
  (last.op = "clickImage" /\ last.pre.attached /\ ~WasZoomed /\ ~last.pre.disableZoom)
    => (Zoomed /\ ~Fullscreen /\ events = <<Opened(src)>>)

\* C2: while disableZoom is true a click on the inline image changes nothing
\* (a Closed instance stays Closed) and emits nothing, and the overlay is
\* not rendered.
C2_DisableZoomInert ==
  /\ (last.op = "clickImage" /\ last.pre.disableZoom)
       => (NothingChanged /\ ~EmittedType("dw-image-opened"))
  /\ disableZoom => ~OverlayOf(This)

C2_Witness ==
  /\ last.op = "clickImage" /\ last.pre.disableZoom /\ last.pre.attached
  /\ ~WasZoomed /\ ~Zoomed /\ events = <<>>

\* C3: Escape pressed while an attached instance is Zoomed(Fullscreen) is a
\* no-op: the instance stays Zoomed(Fullscreen) and emits nothing.
C3_EscapeInFullscreenIsNoOp ==
  (last.op = "keydownEscape" /\ last.pre.attached /\ WasZoomed /\ WasFullscreen)
    => (Zoomed /\ Fullscreen /\ events = <<>>)

\* C4 as stated: Escape pressed while Zoomed(Windowed) closes the instance and
\* emits exactly one 'closed' carrying src and the reason ESCAPE, and every
\* 'closed' carries a reason among ESCAPE, OVERLAY_CLICK and CLOSE_BUTTON.
C4_EscapeReasonESCAPE ==
  /\ (last.op = "keydownEscape" /\ last.pre.attached /\ WasZoomed /\ ~WasFullscreen)
       => (~Zoomed /\ events = <<Closed(src, "ESCAPE")>>)
  /\ \A i \in 1..Len(events) :
       events[i].type = "dw-image-closed"
         => events[i].ux \in {"ESCAPE", "OVERLAY_CLICK", "CLOSE_BUTTON"}

\* C4 as amended: Escape pressed while Zoomed(Windowed) closes the instance and
\* emits exactly one 'closed' carrying src and the reason ESC, and every
\* 'closed' carries a reason among ESC, OVERLAY_CLICK and CLOSE_BUTTON.
C4_EscapeClosesWindowed ==
  /\ (last.op = "keydownEscape" /\ last.pre.attached /\ WasZoomed /\ ~WasFullscreen)
       => (~Zoomed /\ ~Fullscreen /\ events = <<Closed(src, "ESC")>>)
  /\ \A i \in 1..Len(events) :
       events[i].type = "dw-image-closed"
         => /\ events[i].ux \in {"ESC", "OVERLAY_CLICK", "CLOSE_BUTTON"}
            /\ events[i].image = src

C4_Witness ==
  /\ last.op = "keydownEscape" /\ last.pre.attached /\ WasZoomed /\ ~WasFullscreen
  /\ ~Zoomed /\ events = <<Closed(src, "ESC")>>

\* C5, the close control at work: a click on it while Zoomed(Fullscreen) clears
\* the Fullscreen flag and emits 'fullscreen-changed {enabled: false}' while the
\* instance stays Zoomed, and starts one timer; a timer that fires closes the
\* instance and emits exactly one 'closed {CLOSE_BUTTON}'; nothing else starts
\* or ends a timer or emits that notification.
C5_CloseSteps ==
  /\ (last.op = "clickClose" /\ WasFullscreen)
       => /\ Zoomed /\ ~Fullscreen
          /\ events = <<FullscreenChanged(src, FALSE)>>
  /\ last.op = "clickClose"
       => (timers = last.pre.timers + 1 /\ Zoomed /\ ~EmittedType("dw-image-closed"))
  /\ last.op = "timeout"
       => /\ timers + 1 = last.pre.timers
          /\ ~Zoomed
          /\ events = <<Closed(src, "CLOSE_BUTTON")>>
  /\ last.op \notin {"clickClose", "timeout"}
       => (timers = last.pre.timers /\ ~Emitted(Closed(src, "CLOSE_BUTTON")))

\* C5: a click on the close control while Zoomed(Fullscreen) first clears the
\* Fullscreen flag and emits 'fullscreen-changed {enabled: false}'; the deferred
\* action then closes the instance and emits 'closed {CLOSE_BUTTON}', exactly
\* once per click; and the instance does reach Closed.
C5_CloseFromFullscreen ==
  /\ []C5_CloseSteps
  /\ (timers > 0) ~> (last.op = "timeout" /\ ~Zoomed)

C5_Witness ==
  /\ last.op = "clickClose" /\ WasZoomed /\ WasFullscreen
  /\ last.pre.fullscreenElement = "overlay"
  /\ events = <<FullscreenChanged(src, FALSE)>> /\ calls = <<"exitFullscreen">>
  /\ timers = 1 /\ Zoomed /\ ~Fullscreen

\* C6: in every reachable state the Fullscreen flag is set only while the
\* instance is Zoomed.
C6_FullscreenOnlyWhileZoomed == Fullscreen => Zoomed

\* C7: a click whose path holds neither an image nor a zoom control closes a
\* Zoomed(Windowed) instance and emits one 'closed {OVERLAY_CLICK}'; received
\* while Zoomed(Fullscreen) it changes nothing and emits nothing.
C7_OutsideClick ==
  /\ (last.op \in {"clickOutside", "clickHost"} /\ WasZoomed /\ ~WasFullscreen)
       => (~Zoomed /\ ~Fullscreen /\ events = <<Closed(src, "OVERLAY_CLICK")>>)
  /\ (last.op \in {"clickOutside", "clickHost"} /\ WasZoomed /\ WasFullscreen)
       => NothingChanged

C7_Witness ==
  /\ last.op = "clickOutside" /\ WasZoomed /\ ~WasFullscreen
  /\ ~Zoomed /\ events = <<Closed(src, "OVERLAY_CLICK")>>

\* C8 as stated: 'fullscreen-changed {enabled: true}' is emitted only by the
\* task that delivers the platform's fullscreenchange notification, and a click
\* on the fullscreen toggle does not itself change the Fullscreen flag.
C8_EnabledOnlyOnPlatformNotice ==
  /\ Emitted(FullscreenChanged(src, TRUE)) => last.op = "fullscreenchange"
  /\ last.op = "clickFullScreen" => _fullScreen = last.pre._fullScreen

\* C8 as amended: the click on the fullscreen toggle in Zoomed(Windowed) sets
\* the Fullscreen flag itself; the update that follows requests fullscreen from
\* the platform (when the document has no fullscreen element) and emits
\* 'fullscreen-changed {enabled: true}' at once, before any notification of the
\* platform; the notification that confirms the request emits nothing more.
C8_ClickSetsFlagAndEmits ==
  /\ last.op = "clickFullScreen"
       => /\ Zoomed /\ Fullscreen
          /\ events = <<FullscreenChanged(src, TRUE)>>
          /\ calls = IF last.pre.fullscreenElement = "none"
                       THEN <<"requestFullscreen">> ELSE <<>>
          /\ last.pre.fullscreenElement = "none" => requestPending
  /\ (last.op = "fullscreenchange" /\ WasFullscreen /\ Fullscreen) => events = <<>>

C8_Witness ==
  /\ last.op = "clickFullScreen" /\ WasZoomed /\ ~WasFullscreen
  /\ Fullscreen /\ events = <<FullscreenChanged(src, TRUE)>>
  /\ calls = <<"requestFullscreen">> /\ requestPending
  /\ fullscreenElement = "none" /\ ~fullscreenchangeQueued

\* C9: once the platform has declined a fullscreen request, with no element in
\* fullscreen, a Zoomed instance is Zoomed(Windowed).
C9_DeclinedLeavesWindowed ==
  (last.op = "platformDeclines" /\ Zoomed /\ fullscreenElement = "none"
     /\ ~fullscreenchangeQueued)
    => ~Fullscreen

\* C10: from Zoomed(Fullscreen), a click on the exit control and the platform's
\* notification of an exit made elsewhere both lead to Zoomed(Windowed) and
\* emit 'fullscreen-changed {enabled: false}' once; exitFullscreen() is called
\* only by a local control, and only while the document is in fullscreen.
C10_ExitFullscreen ==
  /\ last.op = "clickExitFullScreen"
       => /\ Zoomed /\ ~Fullscreen
          /\ events = <<FullscreenChanged(src, FALSE)>>
          /\ calls = IF last.pre.fullscreenElement # "none"
                       THEN <<"exitFullscreen">> ELSE <<>>
  /\ (last.op = "fullscreenchange" /\ last.pre.attached /\ WasZoomed /\ WasFullscreen
        /\ last.pre.fullscreenElement = "none")
       => /\ Zoomed /\ ~Fullscreen
          /\ events = <<FullscreenChanged(src, FALSE)>>
          /\ calls = <<>>
  /\ (last.op = "fullscreenchange" /\ WasZoomed /\ last.pre._fullScreen = "false"
        /\ last.pre.fullscreenElement = "none")
       => events = <<>>
  /\ (\E i \in 1..Len(calls) : calls[i] = "exitFullscreen")
       => /\ last.op \in {"clickExitFullScreen", "clickClose"}
          /\ last.pre.fullscreenElement # "none"

C10_Witness ==
  /\ last.op = "fullscreenchange" /\ last.pre.attached /\ WasZoomed /\ WasFullscreen
  /\ last.pre.fullscreenElement = "none"
  /\ ~disableZoom /\ ~requestPending /\ ~exitPending
  /\ Zoomed /\ ~Fullscreen /\ events = <<FullscreenChanged(src, FALSE)>>
  /\ calls = <<>>

\* C11: Escape pressed while the instance is Closed is a no-op: the instance
\* stays Closed, nothing else changes, and no notification is emitted.
C11_EscapeWhileClosedIsNoOp ==
  (last.op = "keydownEscape" /\ ~WasZoomed)
    => (~Zoomed /\ NothingChanged)

C11_Witness ==
  /\ last.op = "keydownEscape" /\ last.pre.attached /\ ~WasZoomed
  /\ ~Zoomed /\ events = <<>>

\* C12: whenever the overlay is shown, its image shows zoomSrc when zoomSrc is
\* present and not empty, and src otherwise.
C12_ZoomedImageSource ==
  OverlayOf(This)
    => /\ (zoomSrc # "undefined" /\ zoomSrc # "") => ZoomImgSrc(This) = zoomSrc
       /\ (zoomSrc = "undefined" \/ zoomSrc = "") => ZoomImgSrc(This) = src

C12_Witness ==
  /\ OverlayOf(This) /\ attached /\ zoomSrc = "" /\ ZoomImgSrc(This) = src

C14_DetachAbandonsClose ==
  (last.op = "timeout" /\ ~last.pre.attached)
    => (events = <<>> /\ Zoomed = WasZoomed)

\* C14 as amended: a detach leaves the pending timers pending, and a timer that
\* fires while the component is detached still closes the instance and emits
\* exactly one 'closed {CLOSE_BUTTON}'.
C14_DetachKeepsClosePending ==
  /\ last.op = "disconnectedCallback" => timers = last.pre.timers
  /\ (last.op = "timeout" /\ ~last.pre.attached)
       => /\ ~Zoomed
          /\ timers + 1 = last.pre.timers
          /\ events = <<Closed(src, "CLOSE_BUTTON")>>

C14_Witness ==
  /\ last.op = "timeout" /\ ~last.pre.attached /\ ~attached
  /\ WasZoomed /\ ~Zoomed /\ events = <<Closed(src, "CLOSE_BUTTON")>>

\* C15: a 'closed' notification is emitted only by a task that found the
\* instance Zoomed.
C15_ClosedOnlyFromZoomed == EmittedType("dw-image-closed") => WasZoomed

\* The dw-image-fullscreen notifications of `evs` alternate, starting after `before`.
RECURSIVE Alternates(_, _)
Alternates(before, evs) ==
  IF evs = <<>> THEN TRUE
  ELSE LET ev == evs[1]
           rest == SubSeq(evs, 2, Len(evs))
       IN  IF ev.type = "dw-image-fullscreen"
             THEN /\ ev.enabled <=> before \in {"none", "false"}
                  /\ Alternates(IF ev.enabled THEN "true" ELSE "false", rest)
             ELSE Alternates(before, rest)

\* C16: the 'fullscreen-changed' notifications of the instance carry strictly
\* alternating `enabled` values, the first of them true.
C16_FullscreenChangedAlternates == Alternates(last.pre.enabled, events)

\* C17: the three handlers are registered exactly while the instance is
\* attached, over any number of attach/detach cycles, and a key press or a
\* fullscreenchange delivered while it is detached changes nothing of the
\* instance and emits nothing.
C17_ListenersScopedToAttached ==
  /\ listeners = IF attached THEN {"click", "keydown", "fullscreenchange"} ELSE {}
  /\ (/\ last.op \in {"keydownEscape", "keydownOther", "fullscreenchange"}
      /\ ~last.pre.attached)
       => NothingChanged

C17_Witness ==
  /\ last.op = "keydownEscape" /\ ~last.pre.attached /\ ~attached
  /\ WasZoomed /\ ~WasFullscreen /\ Zoomed /\ events = <<>>
  /\ listeners = {}

\* C18: every instance starts Closed, and an instance that is attached again
\* is Closed(Windowed), whatever it was when it was detached.
C18_ReattachResets ==
  /\ last.op = "constructor" => (~Zoomed /\ ~Fullscreen)
  /\ last.op = "connectedCallback" => (~Zoomed /\ ~Fullscreen)

\* C19: a fullscreenchange that finds another element of the page in
\* fullscreen, or that follows such an element's leaving fullscreen, neither
\* changes the instance's Fullscreen flag nor makes it emit 'fullscreen-changed'.
C19_ForeignFullscreenIgnored ==
  (/\ last.op = "fullscreenchange"
   /\ \/ last.pre.fullscreenElement = "other"
      \/ last.pre.fullscreenElement = "none" /\ ~WasFullscreen)
    => (Fullscreen = WasFullscreen /\ ~EmittedType("dw-image-fullscreen"))

\* C20: a click on the zoomed image, the full-screen control, the
\* exit-full-screen control or the close control never emits
\* 'closed {OVERLAY_CLICK}' and leaves the instance Zoomed, the clicks that
\* change the Fullscreen flag on their way to the host's listener included.
C20_ZoomUIClickIsNotOutside ==
  last.op \in {"clickZoomImage", "clickFullScreen", "clickExitFullScreen", "clickClose"}
    => /\ ~Emitted(Closed(src, "OVERLAY_CLICK"))
       /\ ~EmittedType("dw-image-closed")
       /\ Zoomed

C20_Witness ==
  /\ last.op = "clickExitFullScreen" /\ last.pre.attached
  /\ WasZoomed /\ WasFullscreen /\ ~Fullscreen /\ Zoomed
  /\ events = <<FullscreenChanged(src, FALSE)>>
====
